---- MODULE Spec2Model ----
(***************************************************************************)
(* Encrypted peer-to-peer transport (BIP151 draft) of src/net_encryption:  *)
(* the session keystate (BIP151Encryption), the packet codec               *)
(* (EncryptAppendMAC / AuthenticatedAndDecrypt), the streaming decoder     *)
(* (NetCryptedMessage::Read) and the handshake, for two connected peers.   *)
(*                                                                         *)
(* Cryptographic values are symbolic terms.  A 32-byte key is a record     *)
(* [secret, label, salts]: the HKDF output for (secret, label), hashed     *)
(* once with every session id listed in salts.  A frame on the wire is the *)
(* record of what was encrypted and under which keys and sequence number;  *)
(* it authenticates exactly under those.  Bytes of the inbound stream are  *)
(* named by their offset in the stream, so buffers are extents of it.      *)
(***************************************************************************)
EXTENDS Integers, Sequences, FiniteSets, TLC

VARIABLES
    now,        \* GetTime(): wall clock, seconds
    fastrekey,  \* gArgs "-netencryptionfastrekey"
    sess,       \* sess[p]: the BIP151Encryption object of peer p
    hswire,     \* hswire[p]: handshake bytes p has put on the wire (or none)
    wire,       \* wire[p]: the frames p has sent, in order (stream to the other peer)
    msg,        \* msg[p]: the NetCryptedMessage p is currently filling
    rpos,       \* rpos[p]: offset in wire[Other(p)] of the next byte p's socket hands over
    chunk,      \* chunk[p]: bytes of the current socket chunk not yet consumed by Read
    closed,     \* closed[p]: p has dropped the connection after a fatal Read
    delivered,  \* delivered[p]: messages p's decoder completed, in order
    hist,       \* hist[p]: record of the last operation on p and of counts, for the properties
    enc         \* enc[t]: where thread t is inside EncryptAppendMAC, and its locals

vars == <<now, fastrekey, sess, hswire, wire, msg, rpos, chunk, closed, delivered, hist, enc>>

Peers == {"A", "B"}
Other(p) == IF p = "A" THEN "B" ELSE "A"

(***************************************************************************)
(* Bounds of the model.                                                    *)
(***************************************************************************)
TickStep == 10          \* seconds between two instants at which something happens
MaxTime == 30           \* the clock stops advancing here
MaxFrames == 3          \* frames each peer may send
MaxEnable == 2          \* calls of EnableEncryption per peer
MaxProcess == 2         \* calls of ProcessHandshakeRequestData per peer

(***************************************************************************)
(* Policy constants of net_encryption.h and serialize.h, scaled to the     *)
(* bounds above.  Their order is kept: the limits of the test-only fast    *)
(* schedule (12 KiB, 10 seconds, literals of the source) are below MAX_SIZE *)
(* and the regular rekey limits, REKEY_LIMIT_BYTES < ABORT_LIMIT_BYTES and *)
(* MIN_REKEY_TIME < REKEY_LIMIT_TIME < ABORT_LIMIT_TIME.                    *)
(***************************************************************************)
REKEY_LIMIT_BYTES == 16384
REKEY_LIMIT_TIME == 20
ABORT_LIMIT_BYTES == 40960
ABORT_LIMIT_TIME == 25
MIN_REKEY_TIME == 10
MAX_SIZE == 16384

AAD_LEN == 3
TAG_LEN == 16
REKEY_BIT == 8388608            \* 1U << 23
LEN_MOD == 2 * REKEY_BIT        \* the length field is 24 bits wide
FAST_REKEY_BYTES == 12 * 1024
FAST_REKEY_TIME == 10
AHEAD == 256 * 1024

(***************************************************************************)
(* Primitive adapters (contracts only; the primitives are collaborators).  *)
(***************************************************************************)
\* A 32-byte key as a term.
Key(secret, label, salts) == [secret |-> secret, label |-> label, salts |-> salts]
ZeroKey == Key({}, "zero", <<>>)
\* A 64-byte keypack: bytes 0..32 and 32..64.
Keypack(a, b) == [a |-> a, b |-> b]
ZeroKeypack == Keypack(ZeroKey, ZeroKey)

\* CHKDF_HMAC_SHA256_L32(secret, "BitcoinSharedSecret").Expand32(label)
Expand32(secret, label) == Key(secret, label, <<>>)

\* Hash(session_id, key half): double SHA-256 of session_id || key half
Hash(sid, k) == [k EXCEPT !.salts = Append(@, sid)]

\* secp256k1: the x-only public key of a private key, point validity, ECDH.
\* The point priv*G is the term <<"G", priv>>; ECDH(a, b*G) = ECDH(b, a*G).
Scalars == {"A", "B", "M"}
PubKeyX(priv) == <<"G", priv>>
NoPoint == <<"G", "none">>
IsFullyValid(x) == x[2] \in Scalars
ECDH(priv, x) == {priv, x[2]}

\* chacha20poly1305_init: the context is bound to the keypack
AeadInit(keypack) == keypack

\* chacha20poly1305_crypt(ctx, seq, ..., is_encrypt = 1): the frame on the wire.
\* hdr is the 24-bit length field, plain the payload [body, size].
AeadEncrypt(ctx, seq, hdr, plain) ==
    [lenkey |-> ctx.a, paykey |-> ctx.b, seq |-> seq, hdr |-> hdr, plain |-> plain]

FrameSize(f) == AAD_LEN + f.plain.size + TAG_LEN

\* The tag of frame f verifies under ctx with sequence number seq.
AeadVerifies(ctx, seq, f) == f.lenkey = ctx.a /\ f.paykey = ctx.b /\ f.seq = seq

\* What length recovery yields when the keystream is not the one the header
\* was encrypted with: some other 24-bit value.
GarbledLength(hdr) == (hdr + REKEY_BIT + LEN_MOD - 1) % LEN_MOD

(***************************************************************************)
(* The inbound stream: the concatenation of the frames the peer sent.      *)
(***************************************************************************)
RECURSIVE StreamLen(_)
StreamLen(stream) ==
    IF stream = <<>> THEN 0
    ELSE FrameSize(stream[1]) + StreamLen(Tail(stream))

\* Offset of the first byte of frame i (1-based) of the stream.
FrameStart(stream, i) == StreamLen(SubSeq(stream, 1, i - 1))

\* The index of the frame that starts at offset off, or 0.
FrameAt(stream, off) ==
    LET S == {i \in 1..Len(stream) : FrameStart(stream, i) = off}
    IN IF S = {} THEN 0 ELSE CHOOSE i \in S : TRUE

(***************************************************************************)
(* BIP151Encryption: session keystate.                                     *)
(***************************************************************************)
\* State after the constructor (and the member initialisers).
NewSession(priv) ==
    [ handshake_done          |-> FALSE,
      m_inbound               |-> FALSE,
      m_ecdh_key              |-> priv,
      m_raw_ecdh_secret       |-> [size |-> 0, val |-> {}],
      m_k1_encryption_keypack |-> ZeroKeypack,
      m_k2_encryption_keypack |-> ZeroKeypack,
      m_session_id            |-> ZeroKey,
      m_send_aead_ctx         |-> ZeroKeypack,
      m_recv_aead_ctx         |-> ZeroKeypack,
      m_send_seq_nr           |-> 0,
      m_recv_seq_nr           |-> 0,
      m_bytes_encrypted       |-> 0,
      m_bytes_decrypted       |-> 0,
      m_time_last_rekey_send  |-> 0,
      m_time_last_rekey_recv  |-> 0 ]

ShouldCryptMsg(S) == S.handshake_done

\* The private key is null after SetNull().
NullKey == "null"

\* CKey::ComputeECDHSecret: with a valid key and a valid point the 32-byte
\* secret; a null key computes nothing.
ComputeECDHSecret(key, x, old) ==
    IF key = NullKey THEN [ret |-> FALSE, secret |-> old]
    ELSE [ret |-> TRUE, secret |-> [size |-> 32, val |-> ECDH(key, x)]]

\* ProcessHandshakeRequestData(handshake_data), handshake_data = [size, x]
ProcessHandshakeRequestData(S, data) ==
    IF data.size # 32 THEN [S |-> S, ret |-> FALSE]
    ELSE IF ~IsFullyValid(data.x) THEN [S |-> S, ret |-> FALSE]
    ELSE LET r == ComputeECDHSecret(S.m_ecdh_key, data.x, S.m_raw_ecdh_secret)
         IN [S |-> [S EXCEPT !.m_raw_ecdh_secret = r.secret, !.m_ecdh_key = NullKey],
             ret |-> r.ret]

\* GetHandshakeRequestData: the 32 bytes after the 0x02 prefix of the public key
GetHandshakeRequestData(S) == [size |-> 32, x |-> PubKeyX(S.m_ecdh_key)]

\* Faulty variant of SecretMissing: EnableEncryption without its early return
SecretNeverMissing(S) == FALSE

\* The early return of EnableEncryption
SecretMissing(S) == S.m_raw_ecdh_secret.size # 32

\* Faulty variant of SendKeypackFor: both roles send under k1
SendKeypackAlwaysK1(S, inbound) == S.m_k1_encryption_keypack

\* The keypack EnableEncryption binds to the send (recv) context
SendKeypackFor(S, inbound) ==
    IF inbound THEN S.m_k2_encryption_keypack ELSE S.m_k1_encryption_keypack
RecvKeypackFor(S, inbound) ==
    IF inbound THEN S.m_k1_encryption_keypack ELSE S.m_k2_encryption_keypack

EnableEncryption(S, inbound, t) ==
    IF SecretMissing(S) THEN S
    ELSE LET sec == S.m_raw_ecdh_secret.val
             S1 == [S EXCEPT
                      !.m_inbound = inbound,
                      !.m_k1_encryption_keypack =
                          Keypack(Expand32(sec, "BitcoinK1A"), Expand32(sec, "BitcoinK1B")),
                      !.m_k2_encryption_keypack =
                          Keypack(Expand32(sec, "BitcoinK2A"), Expand32(sec, "BitcoinK2B")),
                      !.m_session_id = Expand32(sec, "BitcoinSessionID"),
                      !.m_bytes_encrypted = 0,
                      !.m_time_last_rekey_send = t,
                      !.m_time_last_rekey_recv = t]
         IN [S1 EXCEPT
               !.m_send_aead_ctx = AeadInit(SendKeypackFor(S1, inbound)),
               !.m_recv_aead_ctx = AeadInit(RecvKeypackFor(S1, inbound)),
               !.handshake_done = TRUE]

\* Rekey: the refusal of a peer-requested rekey below the minimal rekey time
RekeyRefused(S, send_channel, t) ==
    ~send_channel /\ t - S.m_time_last_rekey_recv < MIN_REKEY_TIME

\* Rekey: TRUE when the keypack of the channel is m_k1_encryption_keypack
RekeyUsesK1(S, send_channel) ==
    IF send_channel THEN ~S.m_inbound ELSE S.m_inbound

\* Rekey: the replacement keypack
RekeyedKeypack(sid, keypack) == Keypack(Hash(sid, keypack.a), Hash(sid, keypack.b))

\* Rekey: "reset byte and time counter"
RekeyResetCounters(S, send_channel, t, keypack) ==
    IF send_channel
    THEN [S EXCEPT !.m_bytes_encrypted = 0,
                   !.m_time_last_rekey_send = t,
                   !.m_send_aead_ctx = AeadInit(keypack)]
    ELSE [S EXCEPT !.m_bytes_decrypted = 0,
                   !.m_time_last_rekey_recv = t,
                   !.m_recv_aead_ctx = AeadInit(keypack)]

Rekey(S, send_channel, t) ==
    IF RekeyRefused(S, send_channel, t) THEN [S |-> S, ret |-> FALSE]
    ELSE LET k1 == RekeyUsesK1(S, send_channel)
             old == IF k1 THEN S.m_k1_encryption_keypack ELSE S.m_k2_encryption_keypack
             new == RekeyedKeypack(S.m_session_id, old)
             S1 == IF k1 THEN [S EXCEPT !.m_k1_encryption_keypack = new]
                         ELSE [S EXCEPT !.m_k2_encryption_keypack = new]
         IN [S |-> RekeyResetCounters(S1, send_channel, t, new), ret |-> TRUE]

ShouldRekeySend(S, t, fast) ==
    IF ~S.handshake_done THEN FALSE
    ELSE IF fast /\ (S.m_bytes_encrypted >= FAST_REKEY_BYTES
                     \/ t - S.m_time_last_rekey_send > FAST_REKEY_TIME) THEN TRUE
    ELSE IF S.m_bytes_encrypted >= REKEY_LIMIT_BYTES
            \/ t - S.m_time_last_rekey_send >= REKEY_LIMIT_TIME THEN TRUE
    ELSE FALSE

(***************************************************************************)
(* Packet codec.                                                           *)
(***************************************************************************)
\* data_in_out[2] & (1u << 7): bit 23 of the little-endian length
RekeyBitSet(hdr) == (hdr \div REKEY_BIT) % 2 = 1

\* Faulty variant of EncryptCount: the send sequence number is not advanced
EncryptCountSameSeq(S, size) ==
    [S EXCEPT !.m_bytes_encrypted = @ + (size - AAD_LEN)]

\* EncryptAppendMAC: encryption, sequence number advance and byte count
EncryptCount(S, size) ==
    [S EXCEPT !.m_send_seq_nr = @ + 1,
              !.m_bytes_encrypted = @ + (size - AAD_LEN)]

\* Faulty variant of LengthBitReserved: the caller's bit 23 is not looked at
LengthBitIgnored(data) == FALSE

\* EncryptAppendMAC: "length is only allowed up to 2^23"
LengthBitReserved(data) == RekeyBitSet(data.hdr)

\* EncryptAppendMAC from "if (should_rekey)" on: the flag, and under cs the
\* encryption, the counters and the rekey
EncryptLocked(S, data, should_rekey, t) ==
    LET hdr == IF should_rekey THEN data.hdr + REKEY_BIT ELSE data.hdr
        frame == AeadEncrypt(S.m_send_aead_ctx, S.m_send_seq_nr, hdr, data.plain)
        S1 == EncryptCount(S, AAD_LEN + data.plain.size)
    IN [S |-> IF should_rekey THEN Rekey(S1, TRUE, t).S ELSE S1,
        ret |-> TRUE, frame |-> frame]

\* data = [hdr, plain]: the 3 length bytes and the payload.
\* Result: ret; frame, the buffer afterwards (the input itself when not ret);
\* the session afterwards.
EncryptAppendMAC(S, data, t, fast) ==
    IF LengthBitReserved(data)
    THEN [S |-> S, ret |-> FALSE, frame |-> data]
    ELSE EncryptLocked(S, data, ShouldRekeySend(S, t, fast), t)

\* A receive buffer (CDataStream).  kind "raw": size bytes of which the copied
\* ones are the stream bytes from offset off on; "mixed": bytes not contiguous
\* in the stream; "zeroed": cleansed; "plain": a decrypted payload with body
\* body; "payload": what follows the command name.
Buffer(kind, size, off, body) == [kind |-> kind, size |-> size, off |-> off, body |-> body]

\* AuthenticatedAndDecrypt: the abuse limits
AbuseLimit(S, vsize, t, fast) ==
    \/ S.m_bytes_decrypted + vsize > ABORT_LIMIT_BYTES
    \/ t - S.m_time_last_rekey_send > ABORT_LIMIT_TIME
    \/ (fast /\ S.m_bytes_decrypted + vsize > FAST_REKEY_BYTES)

\* The frame the buffer holds, if it holds exactly one frame of the stream: its index, or 0
FrameIn(buf, stream) ==
    IF buf.kind # "raw" THEN 0
    ELSE LET i == FrameAt(stream, buf.off)
         IN IF i > 0 /\ FrameSize(stream[i]) = buf.size THEN i ELSE 0

\* Faulty variant of DecryptedBuffer: the 3 length bytes are left in the output
DecryptedBufferKeepingAAD(f, vsize) == Buffer("plain", vsize - TAG_LEN, 0, f.plain.body)

\* AuthenticatedAndDecrypt: the buffer on success
DecryptedBuffer(f, vsize) == Buffer("plain", vsize - TAG_LEN - AAD_LEN, 0, f.plain.body)

\* Result: ret, the buffer afterwards, the session afterwards (why names the branch).
AuthenticatedAndDecrypt(S, buf, stream, t, fast) ==
    LET vsize == buf.size IN
    IF AbuseLimit(S, vsize, t, fast)
    THEN [S |-> S, ret |-> FALSE, buf |-> buf, why |-> "abuse_limit"]
    ELSE LET i == FrameIn(buf, stream)
             S1 == [S EXCEPT !.m_recv_seq_nr = @ + 1]
         IN IF i = 0 \/ ~AeadVerifies(S.m_recv_aead_ctx, S.m_recv_seq_nr, stream[i])
            THEN [S |-> S1, ret |-> FALSE, buf |-> Buffer("zeroed", buf.size, 0, ""),
                  why |-> "auth_fail"]
            ELSE [S |-> [S1 EXCEPT !.m_bytes_decrypted = @ + (buf.size - TAG_LEN - AAD_LEN)],
                  ret |-> TRUE, buf |-> DecryptedBuffer(stream[i], vsize), why |-> "ok"]

\* chacha20poly1305_get_length24 on the first AAD_LEN bytes of the buffer
GetLength24(S, buf, stream) ==
    LET i == IF buf.kind = "raw" THEN FrameAt(stream, buf.off) ELSE 0
    IN IF i = 0 THEN GarbledLength(0)
       ELSE IF stream[i].lenkey = S.m_recv_aead_ctx.a /\ stream[i].seq = S.m_recv_seq_nr
            THEN stream[i].hdr
            ELSE GarbledLength(stream[i].hdr)

\* GetLength: ret and len_out
GetLength(S, buf, stream) ==
    IF buf.size < AAD_LEN THEN [ret |-> FALSE, len |-> 0]
    ELSE [ret |-> TRUE, len |-> GetLength24(S, buf, stream)]

(***************************************************************************)
(* NetCryptedMessage: the streaming decoder.                               *)
(***************************************************************************)
Min(a, b) == IF a < b THEN a ELSE b

\* State after the constructor: vRecv resized to the AAD size.
NewMessage ==
    [ m_in_data      |-> FALSE,
      m_hdr_pos      |-> 0,
      m_data_pos     |-> 0,
      m_message_size |-> 0,
      m_rekey_flag   |-> FALSE,
      m_command_name |-> "",
      vRecv          |-> Buffer("raw", AAD_LEN, 0, "") ]

Complete(M) == M.m_in_data /\ M.m_message_size + TAG_LEN = M.m_data_pos

\* memcpy(&vRecv[pos], pch, n), pch being the stream offset of the chunk
CopyInto(buf, pos, pch, n) ==
    IF n = 0 THEN buf
    ELSE IF buf.kind = "raw" /\ (pos = 0 \/ pch = buf.off + pos)
         THEN [buf EXCEPT !.off = pch - pos]
         ELSE [buf EXCEPT !.kind = "mixed"]

\* vRecv >> m_command_name: the serialized command name at the head of the plaintext
CommandSize(body) == IF body = "ping" THEN 1 + 4 ELSE 0
CommandParses(buf) == buf.kind = "plain" /\ buf.body = "ping" /\ buf.size >= CommandSize(buf.body)

\* The value Read returns
FATAL == -1
ReturnFalse == 0            \* "return false" from a function returning int
AuthFailureReturn == ReturnFalse
BadCommandReturn == ReturnFalse

\* What one call of Read did: the decoder and session afterwards, the value
\* returned, the bytes copied, the branch taken and the post-decrypt rekey.
\* adin and adout are the buffer handed to AuthenticatedAndDecrypt and the buffer
\* it left, when it was called.
ReadResult(M, S, ret, copied, why, rekey, adin, adout) ==
    [M |-> M, S |-> S, ret |-> ret, copied |-> copied, why |-> why, rekey |-> rekey,
     adin |-> adin, adout |-> adout]

\* Faulty variant of RekeyFlagOf: bit 23 of the decrypted length is not looked at
RekeyFlagNever(len) == FALSE

\* "check and unset rekey bit"
RekeyFlagOf(len) == RekeyBitSet(len)
UnsetRekeyBit(len) == IF RekeyBitSet(len) THEN len - REKEY_BIT ELSE len

\* Faulty variant of ExceedsMaxSize: a length equal to the limit is rejected too
ReachesMaxSize(message_size) == message_size >= MAX_SIZE

\* Read: "reject messages larger than MAX_SIZE"
ExceedsMaxSize(message_size) == message_size > MAX_SIZE

\* Faulty variant of HeaderCopyBytes: the whole chunk is taken as header bytes
HeaderCopyWholeChunk(M, bytes) == bytes

\* Read, header part: the bytes to copy from the chunk
HeaderCopyBytes(M, bytes) == Min(AAD_LEN - M.m_hdr_pos, bytes)

\* Read, header part (m_in_data false)
ReadHeader(M, S, pch, bytes, stream) ==
    LET copy_bytes == HeaderCopyBytes(M, bytes)
        M1 == [M EXCEPT !.vRecv = CopyInto(@, M.m_hdr_pos, pch, copy_bytes),
                        !.m_hdr_pos = @ + copy_bytes]
        gl == GetLength(S, M1.vRecv, stream)
        M2 == [M1 EXCEPT !.m_message_size = UnsetRekeyBit(gl.len),
                         !.m_rekey_flag = RekeyFlagOf(gl.len)]
    IN IF M1.m_hdr_pos < AAD_LEN
       THEN ReadResult(M1, S, copy_bytes, copy_bytes, "hdr_partial", "none", M1.vRecv, M1.vRecv)
       ELSE IF ~gl.ret
       THEN ReadResult(M1, S, FATAL, copy_bytes, "len_fail", "none", M1.vRecv, M1.vRecv)
       ELSE IF ExceedsMaxSize(M2.m_message_size)
       THEN ReadResult(M2, S, FATAL, copy_bytes, "too_big", "none", M1.vRecv, M1.vRecv)
       ELSE ReadResult([M2 EXCEPT !.m_in_data = TRUE], S, copy_bytes, copy_bytes,
                       "hdr_done", "none", M1.vRecv, M1.vRecv)

\* Read: "extend buffer, respect previous copied AAD part"
Resized(buf, message_size, data_pos, copy_bytes) ==
    IF buf.size < AAD_LEN + data_pos + copy_bytes
    THEN [buf EXCEPT !.size = Min(AAD_LEN + message_size + TAG_LEN,
                                  AAD_LEN + data_pos + copy_bytes + AHEAD + TAG_LEN)]
    ELSE buf

\* Read: the post-decrypt rekey; its outcome as seen by Read's caller
PostDecryptRekey(S, t) ==
    LET r == Rekey(S, FALSE, t)
    IN [S |-> r.S, called |-> IF r.ret THEN "done" ELSE "refused"]

\* Read: what is returned once the message is complete and decoded
CompletedReturn(copy_bytes, rekey) == copy_bytes

\* Faulty variant of DataCopyBytes: the whole chunk is taken as frame bytes
DataCopyWholeChunk(M, bytes) == bytes

\* Read, data part: the bytes to copy from the chunk
DataCopyBytes(M, bytes) == Min(M.m_message_size + TAG_LEN - M.m_data_pos, bytes)

\* Read, data part (m_in_data true)
ReadData(M, S, pch, bytes, stream, t, fast) ==
    LET copy_bytes == DataCopyBytes(M, bytes)
        buf1 == Resized(M.vRecv, M.m_message_size, M.m_data_pos, copy_bytes)
        M1 == [M EXCEPT !.vRecv = CopyInto(buf1, AAD_LEN + M.m_data_pos, pch, copy_bytes),
                        !.m_data_pos = @ + copy_bytes]
        ad == AuthenticatedAndDecrypt(S, M1.vRecv, stream, t, fast)
        M2 == [M1 EXCEPT !.vRecv = ad.buf]
        M3 == [M2 EXCEPT !.m_command_name = ad.buf.body,
                         !.vRecv = Buffer("payload", ad.buf.size - CommandSize(ad.buf.body),
                                          0, ad.buf.body)]
        rk == PostDecryptRekey(ad.S, t)
    IN IF ~Complete(M1)
       THEN ReadResult(M1, S, copy_bytes, copy_bytes, "data_partial", "none", M1.vRecv, M1.vRecv)
       ELSE IF ~ad.ret
       THEN ReadResult(M2, ad.S, AuthFailureReturn, copy_bytes, ad.why, "none", M1.vRecv, ad.buf)
       ELSE IF ~CommandParses(ad.buf)
       THEN ReadResult(M2, ad.S, BadCommandReturn, copy_bytes, "bad_cmd", "none", M1.vRecv, ad.buf)
       ELSE IF M3.m_rekey_flag
       THEN ReadResult(M3, rk.S, CompletedReturn(copy_bytes, rk.called), copy_bytes,
                       "done", rk.called, M1.vRecv, ad.buf)
       ELSE ReadResult(M3, ad.S, copy_bytes, copy_bytes, "done", "none", M1.vRecv, ad.buf)

\* int NetCryptedMessage::Read(const char* pch, unsigned bytes)
Read(M, S, pch, bytes, stream, t, fast) ==
    IF ~M.m_in_data THEN ReadHeader(M, S, pch, bytes, stream)
    ELSE ReadData(M, S, pch, bytes, stream, t, fast)

(***************************************************************************)
(* The two peers and the connection between them.                          *)
(***************************************************************************)
\* The ephemeral private key MakeNewKey gives peer p
EphemeralKey(p) == p

\* No handshake bytes sent yet
NoHandshake == [size |-> 0, x |-> NoPoint]

\* What a peer may be handed as the other side's 32 handshake bytes: what the
\* other side sent, a short block, a block that is no curve point, and the key
\* of a third party.
HandshakeInputs(p) ==
    (IF hswire[Other(p)] = NoHandshake THEN {} ELSE {hswire[Other(p)]})
    \cup {[size |-> 31, x |-> PubKeyX(Other(p))],
          [size |-> 32, x |-> NoPoint],
          [size |-> 32, x |-> PubKeyX("M")]}

\* Payloads handed to the encoder: a command with an empty message body, one
\* whose payload is as long as the decoder accepts and one a byte longer, and
\* a plaintext whose command name does not parse.
Payloads ==
    {[body |-> "ping", size |-> CommandSize("ping")],
     [body |-> "ping", size |-> MAX_SIZE],
     [body |-> "ping", size |-> MAX_SIZE + 1],
     [body |-> "junk", size |-> CommandSize("ping")]}

\* The buffers the sending layer hands to EncryptAppendMAC: the length written
\* in the header is the payload size; one caller sets bit 23 itself.
SendInputs ==
    {[hdr |-> pl.size, plain |-> pl] : pl \in Payloads}
    \cup {[hdr |-> CommandSize("ping") + REKEY_BIT,
           plain |-> [body |-> "ping", size |-> CommandSize("ping")]]}

\* Bytes of the inbound stream of p the socket has not handed over yet
Available(p) == StreamLen(wire[Other(p)]) - rpos[p]

Completing == {"abuse_limit", "auth_fail", "bad_cmd", "done"}
FatalOutcomes == {"len_fail", "too_big", "abuse_limit", "auth_fail", "bad_cmd"}

\* The receiver's recv key and sequence number are the ones frame f was sent under
KeysAgree(S, f) ==
    /\ f.lenkey = S.m_recv_aead_ctx.a
    /\ f.paykey = S.m_recv_aead_ctx.b
    /\ f.seq = S.m_recv_seq_nr

NoPlain == [body |-> "", size |-> 0]

\* Threads that may be inside EncryptAppendMAC of one session, and a thread
\* that is not inside it
Threads == {"t1", "t2"}
Idle == [pc |-> "idle", should_rekey |-> FALSE, data |-> [hdr |-> 0, plain |-> NoPlain]]

InitHist ==
    [ op |-> "none", ret |-> 0, bytes |-> 0, copied |-> 0,
      why |-> "none", rekey |-> "none", sum |-> 0, fatal |-> FALSE,
      nproc |-> 0, nenable |-> 0, proc_ok |-> FALSE, peer_x |-> NoPoint,
      enabled_ok |-> FALSE, nrekey |-> 0,
      calls |-> 0, decoded |-> FALSE, nagain |-> 0,
      ad |-> [called |-> FALSE, frame |-> 0, agree |-> FALSE, limit |-> FALSE,
              ret |-> FALSE, out |-> Buffer("raw", 0, 0, ""), plain |-> NoPlain] ]

\* hist[p] at the start of a new operation on p
Begin(h, op) ==
    [h EXCEPT !.op = op, !.ret = 0, !.bytes = 0, !.copied = 0,
              !.why = "none", !.rekey = "none", !.ad = InitHist.ad]

Init ==
    /\ now = 0
    /\ fastrekey \in BOOLEAN
    /\ sess = [p \in Peers |-> NewSession(EphemeralKey(p))]
    /\ hswire = [p \in Peers |-> NoHandshake]
    /\ wire = [p \in Peers |-> <<>>]
    /\ msg = [p \in Peers |-> NewMessage]
    /\ rpos = [p \in Peers |-> 0]
    /\ chunk = [p \in Peers |-> 0]
    /\ closed = [p \in Peers |-> FALSE]
    /\ delivered = [p \in Peers |-> <<>>]
    /\ hist = [p \in Peers |-> InitHist]
    /\ enc = [t \in Threads |-> Idle]

\* The clock advances
Tick ==
    /\ now + TickStep <= MaxTime
    /\ now' = now + TickStep
    /\ UNCHANGED <<fastrekey, sess, hswire, wire, msg, rpos, chunk, closed, delivered, hist, enc>>

\* p sends its handshake bytes
SendHandshake(p) ==
    /\ hswire[p] = NoHandshake
    /\ sess[p].m_ecdh_key # NullKey
    /\ hswire' = [hswire EXCEPT ![p] = GetHandshakeRequestData(sess[p])]
    /\ UNCHANGED <<now, fastrekey, sess, wire, msg, rpos, chunk, closed, delivered, hist, enc>>

\* p processes 32 bytes received as the other side's handshake
ProcessHandshake(p, data) ==
    /\ hist[p].nproc < MaxProcess
    /\ LET r == ProcessHandshakeRequestData(sess[p], data)
           h == Begin(hist[p], "process")
       IN /\ sess' = [sess EXCEPT ![p] = r.S]
          /\ hist' = [hist EXCEPT ![p] =
                        [h EXCEPT !.nproc = @ + 1,
                                  !.ret = IF r.ret THEN 1 ELSE 0,
                                  !.proc_ok = @ \/ r.ret,
                                  !.peer_x = IF r.ret THEN data.x ELSE @]]
    /\ UNCHANGED <<now, fastrekey, hswire, wire, msg, rpos, chunk, closed, delivered, enc>>

\* p is told to switch to encryption, as responder (inbound) or as initiator
Enable(p, inbound) ==
    /\ hist[p].nenable < MaxEnable
    /\ LET h == Begin(hist[p], "enable")
       IN /\ sess' = [sess EXCEPT ![p] = EnableEncryption(sess[p], inbound, now)]
          /\ hist' = [hist EXCEPT ![p] =
                        [h EXCEPT !.nenable = @ + 1,
                                  !.enabled_ok = @ \/ hist[p].proc_ok,
                                  !.nrekey = IF hist[p].proc_ok THEN 0 ELSE @]]
    /\ UNCHANGED <<now, fastrekey, hswire, wire, msg, rpos, chunk, closed, delivered, enc>>

\* p encrypts one outbound message and puts the frame on the wire
Send(p, data) ==
    /\ ShouldCryptMsg(sess[p])
    /\ ~closed[p]
    /\ Len(wire[p]) < MaxFrames
    /\ \E r \in {EncryptAppendMAC(sess[p], data, now, fastrekey)} :
       LET h == Begin(hist[p], "encrypt")
           rekeyed == r.ret /\ RekeyBitSet(r.frame.hdr)
       IN /\ sess' = [sess EXCEPT ![p] = r.S]
          /\ wire' = [wire EXCEPT ![p] = IF r.ret THEN Append(@, r.frame) ELSE @]
          /\ hist' = [hist EXCEPT ![p] =
                        [h EXCEPT !.ret = IF r.ret THEN 1 ELSE 0,
                                  !.rekey = IF rekeyed THEN "send" ELSE "none",
                                  !.nrekey = IF rekeyed THEN @ + 1 ELSE @]]
    /\ UNCHANGED <<now, fastrekey, hswire, msg, rpos, chunk, closed, delivered, enc>>

\* Thread t enters p's EncryptAppendMAC with data: the check of bit 23 and
\* the call of ShouldRekeySend, which takes and releases cs
EncryptDecide(p, t, data) ==
    /\ enc[t].pc = "idle"
    /\ ShouldCryptMsg(sess[p])
    /\ Len(wire[p]) + Cardinality({u \in Threads : enc[u].pc = "crypt"}) < MaxFrames
    /\ ~LengthBitReserved(data)
    /\ enc' = [enc EXCEPT ![t] = [pc |-> "crypt",
                                  should_rekey |-> ShouldRekeySend(sess[p], now, fastrekey),
                                  data |-> data]]
    /\ UNCHANGED <<now, fastrekey, sess, hswire, wire, msg, rpos, chunk, closed, delivered, hist>>

\* Thread t takes cs and finishes the call: encryption, counters, and the
\* rekey when its should_rekey says so
EncryptFinish(p, t) ==
    /\ enc[t].pc = "crypt"
    /\ \E r \in {EncryptLocked(sess[p], enc[t].data, enc[t].should_rekey, now)} :
       LET h == Begin(hist[p], "encrypt")
       IN /\ sess' = [sess EXCEPT ![p] = r.S]
          /\ wire' = [wire EXCEPT ![p] = Append(@, r.frame)]
          /\ hist' = [hist EXCEPT ![p] =
                        [h EXCEPT !.ret = 1,
                                  !.rekey = IF enc[t].should_rekey THEN "send" ELSE "none",
                                  !.nrekey = IF enc[t].should_rekey THEN @ + 1 ELSE @]]
    /\ enc' = [enc EXCEPT ![t] = Idle]
    /\ UNCHANGED <<now, fastrekey, hswire, msg, rpos, chunk, closed, delivered>>

\* The message the receive loop reads into: a new one once the last is complete
CurrentMessage(M) == IF Complete(M) THEN NewMessage ELSE M

\* The socket hands p a chunk of n bytes
SocketRecv(p, n) ==
    /\ ShouldCryptMsg(sess[p])
    /\ ~closed[p]
    /\ chunk[p] = 0
    /\ n \in 1..Available(p)
    /\ chunk' = [chunk EXCEPT ![p] = n]
    /\ UNCHANGED <<now, fastrekey, sess, hswire, wire, msg, rpos, closed, delivered, hist, enc>>

\* One call of Read on the decoder M of p with the first bytes bytes of what
\* is left of the chunk.  hist[p].calls counts the calls of Rekey(false) the
\* Reads on the current decoder have made, hist[p].decoded says whether one
\* of them authenticated the frame and parsed its command name.
ReadCall(p, M, bytes) ==
    /\ LET stream == wire[Other(p)]
           fresh == M # msg[p]
       IN \E r \in {Read(M, sess[p], rpos[p], bytes, stream, now, fastrekey)} :
          LET h == Begin(hist[p], "read")
              i == FrameIn(r.adin, stream)
              called == r.why \in Completing
          IN
          /\ msg' = [msg EXCEPT ![p] = r.M]
          /\ sess' = [sess EXCEPT ![p] = r.S]
          /\ closed' = [closed EXCEPT ![p] = @ \/ r.ret < 0]
          /\ rpos' = [rpos EXCEPT ![p] = IF r.ret < 0 THEN @ ELSE @ + r.ret]
          /\ chunk' = [chunk EXCEPT ![p] = IF r.ret < 0 THEN 0 ELSE @ - r.ret]
          /\ delivered' = [delivered EXCEPT ![p] =
                             IF r.ret >= 0 /\ Complete(r.M)
                             THEN Append(@, [cmd |-> r.M.m_command_name, buf |-> r.M.vRecv])
                             ELSE @]
          /\ hist' = [hist EXCEPT ![p] =
                        [h EXCEPT !.ret = r.ret, !.bytes = bytes, !.copied = r.copied,
                                  !.why = r.why, !.rekey = r.rekey,
                                  !.sum = (IF fresh THEN 0 ELSE @)
                                          + (IF r.ret < 0 THEN 0 ELSE r.ret),
                                  !.fatal = (IF fresh THEN FALSE ELSE @)
                                            \/ r.why \in FatalOutcomes,
                                  !.nrekey = IF r.rekey = "done" THEN @ + 1 ELSE @,
                                  !.calls = (IF fresh THEN 0 ELSE @)
                                            + (IF r.rekey = "none" THEN 0 ELSE 1),
                                  !.decoded = (IF fresh THEN FALSE ELSE @)
                                              \/ r.why = "done",
                                  !.nagain = IF M = CurrentMessage(msg[p]) /\ bytes = chunk[p]
                                                /\ bytes > 0
                                             THEN @ ELSE @ + 1,
                                  !.ad = [called |-> called,
                                          frame |-> IF called THEN i ELSE 0,
                                          agree |-> called /\ i > 0
                                                    /\ KeysAgree(sess[p], stream[i]),
                                          limit |-> called
                                                    /\ AbuseLimit(sess[p], r.adin.size,
                                                                  now, fastrekey),
                                          ret |-> r.why \in {"bad_cmd", "done"},
                                          out |-> r.adout,
                                          plain |-> IF called /\ i > 0
                                                    THEN stream[i].plain ELSE NoPlain]]]
    /\ UNCHANGED <<now, fastrekey, hswire, wire, enc>>

\* The receive loop of p makes one call of Read on what is left of the chunk;
\* a message that is complete has been handed on and a new one is started.
NetRead(p) ==
    /\ chunk[p] > 0
    /\ ~closed[p]
    /\ ReadCall(p, CurrentMessage(msg[p]), chunk[p])

\* A call of Read the receive loop does not make: with an empty chunk, or on
\* a decoder whose frame is already complete
MaxAgain == 2
ReadAgain(p, bytes) ==
    /\ hist[p].nagain < MaxAgain
    /\ ShouldCryptMsg(sess[p])
    /\ bytes = 0 \/ Complete(msg[p])
    /\ ReadCall(p, msg[p], bytes)

\* The connection as the node runs it: each side sends its handshake bytes,
\* processes the other side's, and switches to encryption with its role (A
\* opened the connection, B accepted it); A then sends messages to B, and B's
\* socket hands over what has arrived, whole or the header first.
Handshaken(p) == hist[p].nproc > 0
Next ==
    \/ (\A p \in Peers : ShouldCryptMsg(sess[p])) /\ Tick
    \/ \E p \in Peers : SendHandshake(p)
    \/ \E p \in Peers : /\ hswire[Other(p)] # NoHandshake
                        /\ ~Handshaken(p)
                        /\ ProcessHandshake(p, hswire[Other(p)])
    \/ \E p \in Peers : /\ Handshaken(p)
                        /\ hist[p].nenable = 0
                        /\ Enable(p, p = "B")
    \/ \E data \in SendInputs : ~closed["B"] /\ Send("A", data)
    \/ \E n \in {Available("B")} : SocketRecv("B", n)
    \/ NetRead("B")

Spec == Init /\ [][Next]_vars

\* The handshake under every order of calls and every input: either side may be
\* handed any 32-byte block or a short one, and may be told to switch to
\* encryption at any time, in either role, repeatedly; A sends at most one
\* message, which B reads.
NextHandshake ==
    \/ \E p \in Peers : SendHandshake(p)
    \/ \E p \in Peers : \E data \in HandshakeInputs(p) : ProcessHandshake(p, data)
    \/ \E p \in Peers : \E inbound \in BOOLEAN : Enable(p, inbound)
    \/ \E data \in SendInputs : /\ wire["A"] = <<>>
                                 /\ data.plain.body = "ping"
                                 /\ data.hdr = CommandSize("ping")
                                 /\ Send("A", data)
    \/ SocketRecv("B", Available("B"))
    \/ NetRead("B")

\* (the regular schedule: no call of the handshake reads the fast-rekey option)
InitHandshake == Init /\ ~fastrekey

SpecHandshake == InitHandshake /\ [][NextHandshake]_vars

(***************************************************************************)
(* The decoder alone, on a fixed inbound stream at a fixed time: B's        *)
(* sessions is as the handshake left it, the stream is what A's encoder    *)
(* made of one or two messages, and the socket hands it over in chunks of  *)
(* any of the sizes below.  Reading stops at the first fatal outcome.  The *)
(* oversize message is read with the keys it was sent under.               *)
(***************************************************************************)
AfterHandshake(p, inbound) ==
    EnableEncryption(
        ProcessHandshakeRequestData(NewSession(EphemeralKey(p)),
            GetHandshakeRequestData(NewSession(EphemeralKey(Other(p))))).S,
        inbound, 0)

\* The session and the frames after encrypting the inputs in order at time t
RECURSIVE Encoded(_, _, _, _)
Encoded(S, inputs, t, fast) ==
    IF inputs = <<>> THEN [S |-> S, frames |-> <<>>]
    ELSE LET r == EncryptAppendMAC(S, Head(inputs), t, fast)
             rest == Encoded(r.S, Tail(inputs), t, fast)
         IN [S |-> rest.S, frames |-> <<r.frame>> \o rest.frames]

\* Short messages: a command with an empty and with a 3-byte message body,
\* and a plaintext whose command name does not parse
ValidInputs ==
    {[hdr |-> pl.size, plain |-> pl] :
        pl \in {[body |-> "ping", size |-> CommandSize("ping")],
                [body |-> "ping", size |-> CommandSize("ping") + 3],
                [body |-> "junk", size |-> CommandSize("ping")]}}
\* A message one byte longer than the decoder accepts
OversizeInput ==
    [hdr |-> MAX_SIZE + 1, plain |-> [body |-> "ping", size |-> MAX_SIZE + 1]]
ChunkStreams ==
    {<<d>> : d \in ValidInputs \cup {OversizeInput}} \cup (ValidInputs \X ValidInputs)
ChunkOptions == {1, 2, 8, 20}

InitChunk ==
    \E inputs \in ChunkStreams, t1 \in {0, REKEY_LIMIT_TIME}, inbound \in BOOLEAN :
    \E tr \in {t1, MaxTime} :
    \E e \in {Encoded(AfterHandshake("A", FALSE), inputs, t1, FALSE)} :
       /\ OversizeInput \in {inputs[i] : i \in 1..Len(inputs)} => inbound
       /\ now = tr
       /\ fastrekey = FALSE
       /\ sess = [p \in Peers |-> IF p = "A" THEN e.S ELSE AfterHandshake("B", inbound)]
       /\ hswire = [p \in Peers |-> GetHandshakeRequestData(NewSession(EphemeralKey(p)))]
       /\ wire = [p \in Peers |-> IF p = "A" THEN e.frames ELSE <<>>]
       /\ msg = [p \in Peers |-> NewMessage]
       /\ rpos = [p \in Peers |-> 0]
       /\ chunk = [p \in Peers |-> 0]
       /\ closed = [p \in Peers |-> FALSE]
       /\ delivered = [p \in Peers |-> <<>>]
       /\ hist = [p \in Peers |->
                    [InitHist EXCEPT !.proc_ok = TRUE, !.enabled_ok = TRUE,
                                     !.nproc = 1, !.nenable = 1,
                                     !.peer_x = PubKeyX(EphemeralKey(Other(p)))]]
       /\ enc = [t \in Threads |-> Idle]

NextChunk ==
    \/ \E n \in ChunkOptions \cup {Available("B")} : ~hist["B"].fatal /\ SocketRecv("B", n)
    \/ ~hist["B"].fatal /\ NetRead("B")

SpecChunk == InitChunk /\ [][NextChunk]_vars

\* The encoder of A alone, after the handshake, called from two threads.
InitThreads ==
    \E t0 \in {0, REKEY_LIMIT_TIME}, fast \in BOOLEAN :
       /\ now = t0
       /\ fastrekey = fast
       /\ sess = [p \in Peers |-> AfterHandshake(p, p = "B")]
       /\ hswire = [p \in Peers |-> GetHandshakeRequestData(NewSession(EphemeralKey(p)))]
       /\ wire = [p \in Peers |-> <<>>]
       /\ msg = [p \in Peers |-> NewMessage]
       /\ rpos = [p \in Peers |-> 0]
       /\ chunk = [p \in Peers |-> 0]
       /\ closed = [p \in Peers |-> FALSE]
       /\ delivered = [p \in Peers |-> <<>>]
       /\ hist = [p \in Peers |->
                    [InitHist EXCEPT !.proc_ok = TRUE, !.enabled_ok = TRUE,
                                     !.nproc = 1, !.nenable = 1,
                                     !.peer_x = PubKeyX(EphemeralKey(Other(p)))]]
       /\ enc = [t \in Threads |-> Idle]

NextThreads ==
    \/ \E t \in Threads, data \in SendInputs : EncryptDecide("A", t, data)
    \/ \E t \in Threads : EncryptFinish("A", t)

SpecThreads == InitThreads /\ [][NextThreads]_vars

\* The decoder on the same streams, called by the receive loop and, in
\* between, with an empty chunk or once more after a frame is complete.
AgainChunkOptions == {1, 8}
NextAgain ==
    \/ \E n \in AgainChunkOptions \cup {Available("B")} : SocketRecv("B", n)
    \/ NetRead("B")
    \/ \E bytes \in {0, chunk["B"]} : ReadAgain("B", bytes)

SpecAgain == InitChunk /\ [][NextAgain]_vars

\* The decoder and session after the first k bytes of the stream were fed
\* one byte per Read, from session R0 on.
RECURSIVE ByteByByte(_, _, _, _, _)
ByteByByte(k, stream, R0, t, fast) ==
    IF k = 0 THEN [M |-> NewMessage, S |-> R0, fatal |-> FALSE, why |-> "none"]
    ELSE LET prev == ByteByByte(k - 1, stream, R0, t, fast)
             r == Read(CurrentMessage(prev.M), prev.S, k - 1, 1, stream, t, fast)
         IN IF prev.fatal THEN prev
            ELSE [M |-> r.M, S |-> r.S, fatal |-> r.why \in FatalOutcomes, why |-> r.why]

(***************************************************************************)
(* Properties.  hist[p].ad describes the call of AuthenticatedAndDecrypt   *)
(* made by the last Read on p: whether it was made, the frame of the       *)
(* stream the buffer held (0 if none), whether the receiver's recv key and *)
(* sequence number were those of that frame, whether an abuse limit was    *)
(* breached, the result, the buffer afterwards and the sender's plaintext. *)
(***************************************************************************)
PlainBuffer(P) == Buffer("plain", P.size, 0, P.body)

LastFrame(p) == wire[Other(p)][hist[p].ad.frame]
DecodedFlagged(p) ==
    /\ hist[p].op = "read" /\ hist[p].why = "done"
    /\ hist[p].ad.frame > 0
    /\ RekeyBitSet(LastFrame(p).hdr)

\* C2 as claimed: once the decoder has authenticated a frame with bit 23 set,
\* the receiver's recv context is the post-rekey keypack of the one the frame
\* was sent under, and recv_seq is 0.
C2_PeerRekeyInStep ==
    \A p \in Peers :
        DecodedFlagged(p)
            => /\ sess[p].m_recv_aead_ctx =
                    RekeyedKeypack(sess[p].m_session_id,
                                   Keypack(LastFrame(p).lenkey, LastFrame(p).paykey))
               /\ sess[p].m_recv_seq_nr = 0

\* A step in which p encrypted a frame and rekeyed its send channel, and one in
\* which p's decoder completed a frame and rekeyed its recv channel.
SendRekeyStep(p) == Len(wire'[p]) = Len(wire[p]) + 1 /\ hist'[p].rekey = "send"
RecvRekeyStep(p) == msg'[p] # msg[p] /\ hist'[p].rekey = "done"

\* C3 as claimed: right after a successful Rekey on a direction, that
\* direction's sequence counter and byte counter are zero and its timestamp is
\* the current time, and the other direction's are unchanged.
C3_RekeyResets ==
    [][\A p \in Peers :
        /\ SendRekeyStep(p) =>
             /\ sess'[p].m_send_seq_nr = 0
             /\ sess'[p].m_bytes_encrypted = 0
             /\ sess'[p].m_time_last_rekey_send = now'
             /\ sess'[p].m_recv_seq_nr = sess[p].m_recv_seq_nr
             /\ sess'[p].m_bytes_decrypted = sess[p].m_bytes_decrypted
             /\ sess'[p].m_time_last_rekey_recv = sess[p].m_time_last_rekey_recv
        /\ RecvRekeyStep(p) =>
             /\ sess'[p].m_recv_seq_nr = 0
             /\ sess'[p].m_bytes_decrypted = 0
             /\ sess'[p].m_time_last_rekey_recv = now'
             /\ sess'[p].m_send_seq_nr = sess[p].m_send_seq_nr
             /\ sess'[p].m_bytes_encrypted = sess[p].m_bytes_encrypted
             /\ sess'[p].m_time_last_rekey_send = sess[p].m_time_last_rekey_send
      ]_vars

\* C4 as claimed: the Read that completes a flagged frame whose rekey is
\* refused (less than MIN_REKEY_TIME since the last recv rekey) returns the
\* fatal value.
C4_RefusedRekeyIsFatal ==
    \A p \in Peers :
        (hist[p].op = "read" /\ hist[p].rekey = "refused") => hist[p].ret = FATAL

\* C5 as claimed: Read returns -1 on every fatal outcome and otherwise the
\* number of bytes it consumed.
C5_FatalIsMinusOne ==
    \A p \in Peers :
        hist[p].op = "read"
            => IF hist[p].why \in FatalOutcomes
               THEN hist[p].ret = FATAL
               ELSE hist[p].ret = hist[p].copied

\* What decoding has come to: the decoder's phase, length and rekey flag, the
\* completed frame's contents, the session, and the fatal result if any.
Outcome(M, S, fatal, why) ==
    [ in_data |-> M.m_in_data, hdr_pos |-> M.m_hdr_pos, data_pos |-> M.m_data_pos,
      message_size |-> M.m_message_size, rekey_flag |-> M.m_rekey_flag,
      complete |-> Complete(M),
      command |-> IF Complete(M) THEN M.m_command_name ELSE "",
      content |-> IF Complete(M) THEN M.vRecv ELSE NewMessage.vRecv,
      S |-> S, fatal |-> fatal, why |-> IF fatal THEN why ELSE "none" ]

\* B's session when the stream began, and the outcome of feeding the first k
\* bytes of B's inbound stream one byte at a time
StartSession == AfterHandshake("B", sess["B"].m_inbound)
Reference(k) == ByteByByte(k, wire["A"], StartSession, now, fastrekey)

\* C6: however the socket splits the inbound stream into chunks, once the
\* decoder has consumed k bytes without a fatal outcome it is where feeding
\* those k bytes one at a time brings it (same length, rekey flag, frame
\* contents and session), and when it ends fatally, the byte-by-byte run
\* ends in the same way on the last byte the fatal Read took.
C6_ChunkingIrrelevant ==
    LET r == Reference(rpos["B"] + (IF hist["B"].fatal THEN hist["B"].copied ELSE 0))
    IN Outcome(msg["B"], sess["B"], hist["B"].fatal, hist["B"].why)
         = Outcome(r.M, r.S, r.fatal, r.why)

C6_Witness ==
    /\ Len(wire["A"]) = 2
    /\ Len(delivered["B"]) = 1
    /\ Complete(msg["B"])
    /\ ~hist["B"].fatal
    /\ hist["B"].copied = 2
    /\ hist["B"].bytes = 8

\* The size on the wire of the frame the decoder is reading
FrameTotal(M) == AAD_LEN + M.m_message_size + TAG_LEN

\* C7: a Read without fatal outcome returns between 0 and the chunk size; the
\* decoder is complete exactly when the counts returned for the frame sum to
\* AAD_LEN + message_size + TAG_LEN, and the sum never exceeds that.
C7_CountsAndCompletion ==
    ~hist["B"].fatal =>
        /\ hist["B"].op = "read" => (0 <= hist["B"].ret /\ hist["B"].ret <= hist["B"].bytes)
        /\ Complete(msg["B"]) <=> (msg["B"].m_in_data /\ hist["B"].sum = FrameTotal(msg["B"]))
        /\ msg["B"].m_in_data => hist["B"].sum <= FrameTotal(msg["B"])
        /\ ~msg["B"].m_in_data => hist["B"].sum < AAD_LEN

C7_Witness ==
    /\ ~hist["B"].fatal
    /\ Complete(msg["B"])
    /\ hist["B"].sum = FrameTotal(msg["B"])
    /\ hist["B"].ret > 0
    /\ hist["B"].bytes > hist["B"].ret
    /\ hist["B"].ret = 1

\* C8: no two frames a peer put on the wire were encrypted under the same
\* keypack with the same sequence number; every successful encrypt uses the
\* current send sequence number and advances it by one, and the sequence
\* number never goes back unless the send keypack is replaced in the same step.
NoNonceReuse ==
    \A p \in Peers : \A i, j \in 1..Len(wire[p]) :
        (i < j) => ~( /\ wire[p][i].lenkey = wire[p][j].lenkey
                      /\ wire[p][i].paykey = wire[p][j].paykey
                      /\ wire[p][i].seq = wire[p][j].seq )
SendSeqStep ==
    \A p \in Peers :
        /\ Len(wire'[p]) = Len(wire[p]) + 1 =>
             /\ wire'[p][Len(wire'[p])].seq = sess[p].m_send_seq_nr
             /\ \/ sess'[p].m_send_seq_nr = sess[p].m_send_seq_nr + 1
                \/ sess'[p].m_send_aead_ctx # sess[p].m_send_aead_ctx
        /\ sess'[p].m_send_seq_nr < sess[p].m_send_seq_nr =>
             sess'[p].m_send_aead_ctx # sess[p].m_send_aead_ctx
C8_NoNonceReuse == []NoNonceReuse /\ [][SendSeqStep]_vars

C8_Witness ==
    \E p \in Peers :
        /\ Len(wire[p]) = 3
        /\ wire[p][1].paykey = wire[p][2].paykey
        /\ wire[p][2].paykey # wire[p][3].paykey
        /\ wire[p][1].seq + 1 = wire[p][2].seq
        /\ RekeyBitSet(wire[p][2].hdr)
        /\ sess[p].m_send_seq_nr = 3

\* Both sides processed the other side's own handshake bytes and then switched
\* to encryption, one as initiator and one as responder, and neither has
\* rekeyed since.
CleanHandshake ==
    /\ \A p \in Peers : /\ hist[p].enabled_ok
                        /\ hist[p].peer_x = PubKeyX(EphemeralKey(Other(p)))
                        /\ hist[p].nrekey = 0
    /\ ~sess["A"].m_inbound /\ sess["B"].m_inbound

\* C9: after such a handshake both sides hold the same session id, the
\* initiator's send key is the responder's recv key and the initiator's recv
\* key is the responder's send key.
C9_HandshakeAgrees ==
    CleanHandshake =>
        /\ sess["A"].m_session_id = sess["B"].m_session_id
        /\ sess["A"].m_send_aead_ctx = sess["B"].m_recv_aead_ctx
        /\ sess["A"].m_recv_aead_ctx = sess["B"].m_send_aead_ctx

C9_Witness ==
    /\ CleanHandshake
    /\ sess["A"].m_session_id # ZeroKey
    /\ sess["A"].m_send_aead_ctx # sess["A"].m_recv_aead_ctx
    /\ hist["B"].why = "done"

\* C10: ShouldCryptMsg is true exactly when a ProcessHandshakeRequestData has
\* succeeded and EnableEncryption was called after it, and once true it stays
\* true.
HandshakeComplete(p) == hist[p].enabled_ok
C10_ShouldCryptIffComplete ==
    /\ [](\A p \in Peers : ShouldCryptMsg(sess[p]) <=> HandshakeComplete(p))
    /\ [][\A p \in Peers : ShouldCryptMsg(sess[p]) => ShouldCryptMsg(sess'[p])]_vars

C10_Witness ==
    \E p \in Peers :
        /\ ShouldCryptMsg(sess[p]) /\ hist[p].nproc = 2 /\ hist[p].nenable = 2
        /\ ~ShouldCryptMsg(sess[Other(p)])
        /\ hist[Other(p)].nproc = 2 /\ hist[Other(p)].nenable = 2

\* The inputs whose byte 2 has its most-significant bit set
FlaggedInputs == {d \in SendInputs : RekeyBitSet(d.hdr)}

\* A step in which p called EncryptAppendMAC and it failed
FailedEncryptStep(p) ==
    hist'[p] # hist[p] /\ hist'[p].op = "encrypt" /\ hist'[p].ret = 0

\* C11: EncryptAppendMAC on a buffer whose byte 2 has its most-significant bit
\* set fails and leaves the buffer, the send sequence number, the byte count,
\* the send keypack and the rekey timestamp as they were, whatever the state
\* of the session (a rekey being due or not); a failed call puts nothing on
\* the wire.
C11_FlaggedInputRejected ==
    /\ [](\A p \in Peers : \A d \in FlaggedInputs :
            LET r == EncryptAppendMAC(sess[p], d, now, fastrekey)
            IN ~r.ret /\ r.frame = d /\ r.S = sess[p])
    /\ [][\A p \in Peers : FailedEncryptStep(p) => (sess' = sess /\ wire' = wire)]_vars

C11_Witness ==
    /\ hist["A"].op = "encrypt" /\ hist["A"].ret = 0
    /\ ShouldRekeySend(sess["A"], now, fastrekey)
    /\ Len(wire["A"]) = 2
    /\ sess["A"].m_send_seq_nr = 2

\* The last Read on p completed the header
HeaderRead(p) == hist[p].op = "read" /\ hist[p].why \in {"hdr_done", "too_big"}

\* C12: the length the decoder compares with MAX_SIZE has the rekey bit masked
\* off; a masked length up to and including MAX_SIZE moves the decoder to the
\* data phase, a masked length of MAX_SIZE + 1 or more makes Read fail fatally
\* with the decoder still in the header phase, with the rekey bit set or not.
C12_MaxSizeBoundary ==
    HeaderRead("B") =>
        /\ msg["B"].m_message_size < REKEY_BIT
        /\ IF msg["B"].m_message_size <= MAX_SIZE
           THEN /\ hist["B"].why = "hdr_done" /\ msg["B"].m_in_data
                /\ hist["B"].ret = hist["B"].copied
           ELSE /\ hist["B"].why = "too_big" /\ ~msg["B"].m_in_data
                /\ hist["B"].ret = FATAL

C12_Witness ==
    /\ HeaderRead("B")
    /\ hist["B"].why = "too_big"
    /\ msg["B"].m_rekey_flag
    /\ msg["B"].m_message_size = MAX_SIZE + 1

\* A length exactly at the limit, flagged, is accepted
C12_WitnessAtLimit ==
    /\ HeaderRead("B")
    /\ hist["B"].why = "hdr_done"
    /\ msg["B"].m_rekey_flag
    /\ msg["B"].m_message_size = MAX_SIZE

\* A step in which a Read on p ended in a refusal by AuthenticatedAndDecrypt
DecryptRefusedStep(p) ==
    /\ hist'[p].op = "read"
    /\ hist'[p].why \in {"abuse_limit", "auth_fail"}
    /\ (hist'[p] # hist[p] \/ sess'[p] # sess[p])

\* C13 as claimed: on a fatal outcome of a receive-side operation (abuse
\* limit breached, tag not verifying, rekey refused) the session's keys,
\* sequence counters, byte counters and rekey timestamps are after the call
\* what they were before it.
C13_FatalLeavesSession ==
    /\ [](\A p \in Peers :
            RekeyRefused(sess[p], FALSE, now) => Rekey(sess[p], FALSE, now).S = sess[p])
    /\ [][\A p \in Peers : DecryptRefusedStep(p) => sess'[p] = sess[p]]_vars

\* The raw ECDH secret holds no key material
SecretCleared(S) == S.m_raw_ecdh_secret = NewSession(NullKey).m_raw_ecdh_secret

\* C14 as claimed: whenever handshake_done is true, the ephemeral private key
\* and the raw ECDH shared secret have been cleared.
C14_SecretsCleared ==
    \A p \in Peers :
        sess[p].handshake_done => (sess[p].m_ecdh_key = NullKey /\ SecretCleared(sess[p]))

\* The role and the keys of a session
RoleAndKeys(S) ==
    <<S.m_inbound, S.m_k1_encryption_keypack, S.m_k2_encryption_keypack,
      S.m_send_aead_ctx, S.m_recv_aead_ctx>>

\* A step in which a rekey of p's send or recv channel was performed
RekeyStep(p) == hist'[p].rekey \in {"send", "done"} /\ hist'[p] # hist[p]

\* C15 as claimed: once the handshake has completed the role never changes,
\* and the keypacks and the keys bound to the two directions change only in a
\* step that performs a Rekey, whatever is called, a further EnableEncryption
\* with the other role included.
C15_RoleFixed ==
    [][\A p \in Peers :
         sess[p].handshake_done =>
            /\ sess'[p].m_inbound = sess[p].m_inbound
            /\ RekeyStep(p) \/ RoleAndKeys(sess'[p]) = RoleAndKeys(sess[p])
      ]_vars

\* A step in which p's EncryptAppendMAC emitted a frame, and that frame
EmitStep(p) == Len(wire'[p]) = Len(wire[p]) + 1
Emitted(p) == wire'[p][Len(wire'[p])]

\* C16 as claimed: every emitted frame is encrypted under the send key and
\* sequence number the session had before the call; when a send rekey was due
\* the frame has bit 23 set and the call leaves the session with the rekeyed
\* send key and send counter 0 for the following frame; when none was due the
\* bit is clear and the send key is unchanged.
C16_SendRekeyOrder ==
    [][\A p \in Peers :
         EmitStep(p) =>
            /\ Emitted(p).lenkey = sess[p].m_send_aead_ctx.a
            /\ Emitted(p).paykey = sess[p].m_send_aead_ctx.b
            /\ Emitted(p).seq = sess[p].m_send_seq_nr
            /\ IF ShouldRekeySend(sess[p], now, fastrekey)
               THEN /\ RekeyBitSet(Emitted(p).hdr)
                    /\ sess'[p].m_send_aead_ctx =
                         RekeyedKeypack(sess[p].m_session_id, sess[p].m_send_aead_ctx)
                    /\ sess'[p].m_send_seq_nr = 0
               ELSE /\ ~RekeyBitSet(Emitted(p).hdr)
                    /\ sess'[p].m_send_aead_ctx = sess[p].m_send_aead_ctx
      ]_vars

\* C17 as claimed: ShouldRekeySend reports a rekey as due exactly when the
\* handshake is complete and the encrypted bytes have reached
\* REKEY_LIMIT_BYTES or the time since the last send rekey has reached
\* REKEY_LIMIT_TIME, or, on the fast schedule, 12 KiB have been encrypted or
\* 10 seconds have elapsed since the last send rekey.
C17_RekeyDueConditions ==
    \A p \in Peers :
        LET S == sess[p]
            elapsed == now - S.m_time_last_rekey_send
        IN ShouldRekeySend(S, now, fastrekey) <=>
              /\ S.handshake_done
              /\ \/ S.m_bytes_encrypted >= REKEY_LIMIT_BYTES
                 \/ elapsed >= REKEY_LIMIT_TIME
                 \/ fastrekey /\ \/ S.m_bytes_encrypted >= FAST_REKEY_BYTES
                                 \/ elapsed >= FAST_REKEY_TIME

\* A step in which p's Read handed a complete frame to AuthenticatedAndDecrypt
DecryptStep(p) == hist'[p] # hist[p] /\ hist'[p].op = "read" /\ hist'[p].ad.called

\* C18 as claimed: AuthenticatedAndDecrypt fails, leaving the frame
\* undecrypted and the session (recv counter and decrypted bytes included) as
\* it was, whenever the decrypted bytes plus the frame size exceed
\* ABORT_LIMIT_BYTES or more than ABORT_LIMIT_TIME has passed since the last
\* send rekey; when neither limit is breached and the tag verifies it
\* succeeds, and the decrypted bytes grow by the payload length.
C18_AbuseLimitsThenDecrypt ==
    [][\A p \in Peers :
         DecryptStep(p) =>
            LET S == sess[p]
                vsize == AAD_LEN + msg'[p].m_message_size + TAG_LEN
                breached == \/ S.m_bytes_decrypted + vsize > ABORT_LIMIT_BYTES
                            \/ now - S.m_time_last_rekey_send > ABORT_LIMIT_TIME
            IN /\ breached =>
                    /\ ~hist'[p].ad.ret
                    /\ hist'[p].ad.out.kind \notin {"plain", "zeroed"}
                    /\ sess'[p] = S
               /\ (~breached /\ hist'[p].ad.agree) =>
                    /\ hist'[p].ad.ret
                    /\ hist'[p].ad.out.kind = "plain"
                    /\ hist'[p].ad.out.size = vsize - AAD_LEN - TAG_LEN
                    /\ hist'[p].rekey # "done" =>
                         sess'[p].m_bytes_decrypted =
                            S.m_bytes_decrypted + (vsize - AAD_LEN - TAG_LEN)
      ]_vars

\* A step in which Read was called on p's decoder
ReadStep(p) == hist'[p] # hist[p] /\ hist'[p].op = "read"

\* C19 as claimed: the Reads on a decoder call Rekey(false) once when the
\* frame has bit 23 set and has been authenticated and its command name
\* parsed, and not at all otherwise; the call is made by the Read that
\* decodes the frame, and no Read with an empty chunk or on a frame already
\* complete makes another one.
C19_RekeyOncePerFlaggedFrame ==
    /\ [](\A p \in Peers :
            hist[p].calls = IF hist[p].decoded /\ msg[p].m_rekey_flag THEN 1 ELSE 0)
    /\ [][\A p \in Peers :
            ReadStep(p) =>
               IF hist'[p].why = "done"
               THEN /\ hist'[p].ad.frame > 0
                    /\ hist'[p].rekey # "none"
                          <=> RekeyBitSet(wire[Other(p)][hist'[p].ad.frame].hdr)
               ELSE hist'[p].rekey = "none"
      ]_vars

\* A flagged frame was decoded, and the last of MaxAgain further Reads was one
\* with an empty chunk on the complete frame: it failed without a rekey
C19_Witness ==
    /\ hist["B"].decoded /\ msg["B"].m_rekey_flag /\ hist["B"].calls = 1
    /\ hist["B"].nagain = MaxAgain
    /\ hist["B"].op = "read" /\ hist["B"].bytes = 0 /\ hist["B"].why = "auth_fail"

\* C20 as claimed: concurrent calls of EncryptAppendMAC behave as calls made
\* one after another: whenever a call emits its frame, the frame carries the
\* rekey flag and a send rekey is performed exactly if a send rekey is due on
\* the session at that moment, so that a due rekey gives one flagged frame and
\* one rekey.
C20_EncryptAtomic ==
    [][EmitStep("A") =>
         LET due == ShouldRekeySend(sess["A"], now, fastrekey)
         IN /\ RekeyBitSet(Emitted("A").hdr) <=> due
            /\ hist'["A"].rekey = "send" <=> due
            /\ hist'["A"].nrekey = hist["A"].nrekey + (IF due THEN 1 ELSE 0)
      ]_vars

\* C21 as claimed: with a sender that signals and performs a send rekey on
\* every encrypt for which ShouldRekeySend is true, and frames delivered in
\* order, no AuthenticatedAndDecrypt of the receiver is refused by a byte or
\* time abuse limit, on the normal and on the fast schedule, whatever the
\* receiver itself has sent.
C21_AbuseLimitsSpareConformingSender ==
    [][\A p \in Peers :
         DecryptStep(p) => ~hist'[p].ad.limit /\ hist'[p].why # "abuse_limit"
      ]_vars

====
